---- MODULE Spec2Model ----
(***************************************************************************)
(* Model of the deal-evaluation functions of the real-estate deal          *)
(* analyzer: src/functions/deal_calculator.py, the record builder          *)
(* extract_property_info of src/functions/realtor_api.py, and the two      *)
(* callers that reach them (agent.execute_function_call and the loop body  *)
(* of app.analyze_property).                                               *)
(*                                                                         *)
(* Numbers.  Python floats are modelled as exact decimal fixed-point       *)
(* numbers: an amount is an integer count of 1/Scale dollars, so that      *)
(* every product the code forms (x * 0.70, x * 0.02, x * 1.05, ...) is     *)
(* exact on the inputs enumerated below, and round(x, 2) is a real         *)
(* rounding that changes sub-cent amounts.  The binary representation      *)
(* error of IEEE doubles (0.1 + 0.2 # 0.3) is below the resolution of the  *)
(* model; in particular an amount that is exactly half a cent in decimal   *)
(* is rounded to the even cent here, where the double nearest to it may    *)
(* lie on either side.  A rounded amount below differs from the float the  *)
(* code computes by at most one cent, and only at such halves; a ratio     *)
(* taken from such an amount differs accordingly.                          *)
(*                                                                         *)
(* Values.  A Python value read from a JSON dict is a tagged record        *)
(* (PyInt, PyFloat, PyStr, PyNone); a dict is a function whose DOMAIN is   *)
(* the set of keys present; a raised exception is the record Raise(kind).  *)
(*                                                                         *)
(* Specifications.  Spec runs one call at a time over the full input sets. *)
(* SpecRequests runs several requests side by side, each calling a         *)
(* function repeatedly on the argument objects it owns, over a small       *)
(* sample of the inputs.                                                   *)
(***************************************************************************)
EXTENDS Integers, Sequences, FiniteSets, TLC

\* ------------------------------------------------------------------------
\* Fixed-point units
\* ------------------------------------------------------------------------
\* round(x, 2) keeps cents; the model carries three more decimal places
Cent == 1000
Mill == Cent \div 10
Scale == 100 * Cent

Dollars(n) == n * Scale

Min(a, b) == IF a <= b THEN a ELSE b

Abs(x) == IF x < 0 THEN 0 - x ELSE x

Sign(x) == IF x > 0 THEN 1 ELSE IF x < 0 THEN 0 - 1 ELSE 0

\* x * (hundredths/100), the product of an amount with a two-decimal
\* literal; the quotient is taken in two parts to stay within 32 bits
Times(x, hundredths) ==
    (x \div 100) * hundredths + ((x % 100) * hundredths) \div 100

\* round(x, 2): nearest cent, ties to the even cent (Python 3 round)
Round2(x) ==
    LET q == x \div Cent
        r == x % Cent
    IN  IF 2 * r < Cent THEN q * Cent
        ELSE IF 2 * r > Cent THEN (q + 1) * Cent
        ELSE IF q % 2 = 0 THEN q * Cent ELSE (q + 1) * Cent

\* ------------------------------------------------------------------------
\* Python values
\* ------------------------------------------------------------------------
PyNone == [t |-> "None"]
PyInt(n) == [t |-> "int", v |-> n]
PyFloat(x) == [t |-> "float", v |-> x]
PyStr(chars) == [t |-> "str", s |-> chars]

\* the string "N/A"
NA == PyStr(<<"N", "/", "A">>)

Raise(kind) == [error |-> kind]

IsError(r) == "error" \in DOMAIN r

\* dict.get(key, default)
DictGet(d, key, default) == IF key \in DOMAIN d THEN d[key] ELSE default

\* truthiness of a value: None, 0, 0.0 and "" are falsy
Truthy(x) ==
    CASE x.t = "None" -> FALSE
      [] x.t = "int" -> x.v # 0
      [] x.t = "float" -> x.v # 0
      [] x.t = "str" -> Len(x.s) > 0

\* the amount (in 1/Scale dollars) a numeric value stands for
Amount(x) == IF x.t = "int" THEN Dollars(x.v) ELSE x.v

IsNumber(x) == x.t \in {"int", "float"}

\* ------------------------------------------------------------------------
\* str(), str.isdigit() and int() on the year_built field
\* ------------------------------------------------------------------------
DecimalDigits == <<"0", "1", "2", "3", "4", "5", "6", "7", "8", "9">>

\* characters for which str.isdigit() is true but which int() rejects
\* (Unicode Numeric_Type=Digit, e.g. SUPERSCRIPT TWO)
OtherDigits == {"sup2"}

IsDecimalChar(c) == \E i \in 1..10 : DecimalDigits[i] = c

DigitValue(c) == (CHOOSE i \in 1..10 : DecimalDigits[i] = c) - 1

RECURSIVE NatToStr(_)
NatToStr(n) ==
    IF n < 10 THEN <<DecimalDigits[n + 1]>>
    ELSE NatToStr(n \div 10) \o <<DecimalDigits[(n % 10) + 1]>>

\* str(x) for an int or a str
Str(x) ==
    IF x.t = "str" THEN x.s
    ELSE IF x.v < 0 THEN <<"-">> \o NatToStr(0 - x.v)
    ELSE NatToStr(x.v)

\* s.isdigit(): non-empty and every character is a digit character
IsDigit(s) ==
    /\ Len(s) > 0
    /\ \A i \in 1..Len(s) : IsDecimalChar(s[i]) \/ s[i] \in OtherDigits

RECURSIVE ParseNat(_)
ParseNat(s) ==
    IF Len(s) = 0 THEN 0
    ELSE 10 * ParseNat(SubSeq(s, 1, Len(s) - 1)) + DigitValue(s[Len(s)])

\* int(x) for an int or a str whose isdigit() is true: ValueError when a
\* character is not a decimal digit
IntOf(x) ==
    IF x.t = "int" THEN PyInt(x.v)
    ELSE IF \A i \in 1..Len(x.s) : IsDecimalChar(x.s[i])
         THEN PyInt(ParseNat(x.s))
         ELSE Raise("ValueError")

\* ------------------------------------------------------------------------
\* estimate_repair_costs (deal_calculator.py 40-79)
\* ------------------------------------------------------------------------
current_year == 2025
default_year_built == 2020
LightRate == 1250000
MediumRate == 3000000
HeavyRate == 6250000

\* line 56: the age, or the exception int() raises
AgeOf(year_built) ==
    IF year_built.t \in {"int", "str"} /\ IsDigit(Str(year_built))
    THEN LET y == IntOf(year_built)
         IN  IF IsError(y) THEN y ELSE PyInt(current_year - y.v)
    ELSE PyInt(0)

\* lines 58-66
RepairTier(age) ==
    IF age < 10 THEN [repair_level |-> "light", cost_per_sqft |-> LightRate]
    ELSE IF age < 30 THEN [repair_level |-> "medium", cost_per_sqft |-> MediumRate]
    ELSE [repair_level |-> "heavy", cost_per_sqft |-> HeavyRate]

estimate_repair_costs(property_info) ==
    LET sqft == DictGet(property_info, "sqft", PyInt(0))
        year_built == DictGet(property_info, "year_built", PyInt(default_year_built))
        age == AgeOf(year_built)
    IN  IF IsError(age) THEN age
        \* line 68: None * float and str * float raise TypeError
        ELSE IF sqft.t # "int" THEN Raise("TypeError")
        ELSE LET tier == RepairTier(age.v)
             IN  [repair_level |-> tier.repair_level,
                  cost_per_sqft |-> tier.cost_per_sqft,
                  estimated_total |-> Round2(sqft.v * tier.cost_per_sqft),
                  breakdown |-> [light |-> Round2(sqft.v * LightRate),
                                 medium |-> Round2(sqft.v * MediumRate),
                                 heavy |-> Round2(sqft.v * HeavyRate)]]

\* ------------------------------------------------------------------------
\* calculate_arv_from_comps (deal_calculator.py 19-37)
\* ------------------------------------------------------------------------
RECURSIVE SumAmounts(_)
SumAmounts(xs) ==
    IF Len(xs) = 0 THEN 0 ELSE Amount(Head(xs)) + SumAmounts(Tail(xs))

\* n / d for d > 0, to the nearest representable amount (ties to even)
DivNearest(n, d) ==
    LET q == n \div d
        r == n % d
    IN  IF 2 * r < d THEN q
        ELSE IF 2 * r > d THEN q + 1
        ELSE IF q % 2 = 0 THEN q ELSE q + 1

\* faulty variant: only a missing or None list price is dropped, a zero
\* price is kept
CompPrices_keep_zero(comparable_properties) ==
    LET kept == SelectSeq(comparable_properties,
                          LAMBDA comp : DictGet(comp, "list_price", PyNone) # PyNone)
    IN  [i \in 1..Len(kept) |-> DictGet(kept[i], "list_price", PyInt(0))]

\* line 32: the list prices kept by the comprehension
CompPrices(comparable_properties) ==
    LET kept == SelectSeq(comparable_properties,
                          LAMBDA comp : Truthy(DictGet(comp, "list_price", PyNone)))
    IN  [i \in 1..Len(kept) |-> DictGet(kept[i], "list_price", PyInt(0))]

calculate_arv_from_comps(comparable_properties) ==
    IF Len(comparable_properties) = 0 THEN PyInt(0)
    ELSE LET prices == CompPrices(comparable_properties)
         IN  IF Len(prices) = 0 THEN PyInt(0)
             ELSE PyFloat(DivNearest(SumAmounts(prices), Len(prices)))

\* ------------------------------------------------------------------------
\* calculate_max_allowable_offer (deal_calculator.py 82-111, config.py 26-27)
\* ------------------------------------------------------------------------
\* two-decimal literals, in hundredths
DEFAULT_PROFIT_MARGIN_TARGET == 20
ARV_MULTIPLIER == 70
HoldingCostPercent == 2
SellingCostPercent == 8

\* faulty variant: the larger of the two offers is recommended
calculate_max_allowable_offer_max(arv, repair_costs, target_profit_percent) ==
    LET traditional_mao == Times(arv, ARV_MULTIPLIER) - repair_costs
        target_profit == Times(arv, target_profit_percent)
        estimated_holding_costs == Times(arv, HoldingCostPercent)
        profit_based_mao == arv - repair_costs - target_profit - estimated_holding_costs
    IN  [traditional_mao |-> Round2(traditional_mao),
         profit_based_mao |-> Round2(profit_based_mao),
         recommended_mao |-> Round2(IF traditional_mao >= profit_based_mao
                                    THEN traditional_mao ELSE profit_based_mao),
         arv |-> Round2(arv),
         repair_costs |-> Round2(repair_costs),
         target_profit |-> Round2(target_profit),
         estimated_holding_costs |-> Round2(estimated_holding_costs)]

\* faulty variant: the holding costs are taken as 20% of arv (0.2 for 0.02)
calculate_max_allowable_offer_holding(arv, repair_costs, target_profit_percent) ==
    LET traditional_mao == Times(arv, ARV_MULTIPLIER) - repair_costs
        target_profit == Times(arv, target_profit_percent)
        estimated_holding_costs == Times(arv, 10 * HoldingCostPercent)
        profit_based_mao == arv - repair_costs - target_profit - estimated_holding_costs
    IN  [traditional_mao |-> Round2(traditional_mao),
         profit_based_mao |-> Round2(profit_based_mao),
         recommended_mao |-> Round2(Min(traditional_mao, profit_based_mao)),
         arv |-> Round2(arv),
         repair_costs |-> Round2(repair_costs),
         target_profit |-> Round2(target_profit),
         estimated_holding_costs |-> Round2(estimated_holding_costs)]

calculate_max_allowable_offer(arv, repair_costs, target_profit_percent) ==
    LET traditional_mao == Times(arv, ARV_MULTIPLIER) - repair_costs
        target_profit == Times(arv, target_profit_percent)
        estimated_holding_costs == Times(arv, HoldingCostPercent)
        profit_based_mao == arv - repair_costs - target_profit - estimated_holding_costs
    IN  [traditional_mao |-> Round2(traditional_mao),
         profit_based_mao |-> Round2(profit_based_mao),
         recommended_mao |-> Round2(Min(traditional_mao, profit_based_mao)),
         arv |-> Round2(arv),
         repair_costs |-> Round2(repair_costs),
         target_profit |-> Round2(target_profit),
         estimated_holding_costs |-> Round2(estimated_holding_costs)]

\* ------------------------------------------------------------------------
\* analyze_deal (deal_calculator.py 114-182)
\* ------------------------------------------------------------------------
FallbackArvPercent == 115
GoodPercent == 105
MarginalPercent == 115

\* a true division n / d: ZeroDivisionError when d = 0, else the exact ratio
TrueDiv(n, d) == IF d = 0 THEN Raise("ZeroDivisionError") ELSE [n |-> n, d |-> d]

\* faulty variant: the guard lets a total cost of 0 through
Roi_zero_allowed(potential_profit, total_cost) ==
    IF total_cost >= 0 THEN TrueDiv(potential_profit, total_cost)
    ELSE [n |-> 0, d |-> 1]

\* line 145: (potential_profit / total_cost * 100) if total_cost > 0 else 0;
\* the value is the exact ratio n/d, read as a percentage after * 100
Roi(potential_profit, total_cost) ==
    IF total_cost > 0 THEN TrueDiv(potential_profit, total_cost)
    ELSE [n |-> 0, d |-> 1]

\* round(ratio * 100, 2) for a ratio with d > 0, in hundredths of a percent:
\* n * 10000 / d by long division, one decimal place at a time
RoundPercent(ratio) ==
    LET d == ratio.d
        r0 == ratio.n % d
        r1 == (r0 * 10) % d
        r2 == (r1 * 10) % d
        r3 == (r2 * 10) % d
        r4 == (r3 * 10) % d
        h == (ratio.n \div d) * 10000 + ((r0 * 10) \div d) * 1000
             + ((r1 * 10) \div d) * 100 + ((r2 * 10) \div d) * 10 + (r3 * 10) \div d
    IN  IF 2 * r4 < d THEN h
        ELSE IF 2 * r4 > d THEN h + 1
        ELSE IF h % 2 = 0 THEN h ELSE h + 1

\* faulty variant: the holding costs are left out of the investment
TotalCost_without_holding(current_price, repair_costs, estimated_holding_costs) ==
    current_price + repair_costs

\* faulty variant: the repair costs are subtracted
TotalCost_minus_repairs(current_price, repair_costs, estimated_holding_costs) ==
    current_price - repair_costs + estimated_holding_costs

\* line 143
TotalCost(current_price, repair_costs, estimated_holding_costs) ==
    current_price + repair_costs + estimated_holding_costs

\* faulty variant: the selling costs are taken off the profit as well
PotentialProfit_less_selling(arv, total_cost) ==
    arv - total_cost - Times(arv, SellingCostPercent)

\* line 144
PotentialProfit(arv, total_cost) ==
    arv - total_cost

\* faulty variant: the first comparison is turned round
Rating_flipped(current_price, recommended_mao) ==
    IF current_price >= recommended_mao
    THEN [deal_rating |-> "EXCELLENT",
          recommendation |-> "Strong buy - property is below MAO"]
    ELSE IF current_price <= Times(recommended_mao, GoodPercent)
    THEN [deal_rating |-> "GOOD",
          recommendation |-> "Negotiate - close to MAO, try to lower price"]
    ELSE IF current_price <= Times(recommended_mao, MarginalPercent)
    THEN [deal_rating |-> "MARGINAL",
          recommendation |-> "Risky - only proceed if you can negotiate significantly"]
    ELSE [deal_rating |-> "POOR",
          recommendation |-> "Pass - property is overpriced for investment"]

\* faulty variant: the GOOD and MARGINAL bands are taken on the magnitude of
\* the offer
Rating_magnitude(current_price, recommended_mao) ==
    IF current_price <= recommended_mao
    THEN [deal_rating |-> "EXCELLENT",
          recommendation |-> "Strong buy - property is below MAO"]
    ELSE IF current_price <= Times(Abs(recommended_mao), GoodPercent)
    THEN [deal_rating |-> "GOOD",
          recommendation |-> "Negotiate - close to MAO, try to lower price"]
    ELSE IF current_price <= Times(Abs(recommended_mao), MarginalPercent)
    THEN [deal_rating |-> "MARGINAL",
          recommendation |-> "Risky - only proceed if you can negotiate significantly"]
    ELSE [deal_rating |-> "POOR",
          recommendation |-> "Pass - property is overpriced for investment"]

\* faulty variant: the GOOD band excludes its upper boundary
Rating_strict(current_price, recommended_mao) ==
    IF current_price <= recommended_mao
    THEN [deal_rating |-> "EXCELLENT",
          recommendation |-> "Strong buy - property is below MAO"]
    ELSE IF current_price < Times(recommended_mao, GoodPercent)
    THEN [deal_rating |-> "GOOD",
          recommendation |-> "Negotiate - close to MAO, try to lower price"]
    ELSE IF current_price <= Times(recommended_mao, MarginalPercent)
    THEN [deal_rating |-> "MARGINAL",
          recommendation |-> "Risky - only proceed if you can negotiate significantly"]
    ELSE [deal_rating |-> "POOR",
          recommendation |-> "Pass - property is overpriced for investment"]

\* lines 148-159
Rating(current_price, recommended_mao) ==
    IF current_price <= recommended_mao
    THEN [deal_rating |-> "EXCELLENT",
          recommendation |-> "Strong buy - property is below MAO"]
    ELSE IF current_price <= Times(recommended_mao, GoodPercent)
    THEN [deal_rating |-> "GOOD",
          recommendation |-> "Negotiate - close to MAO, try to lower price"]
    ELSE IF current_price <= Times(recommended_mao, MarginalPercent)
    THEN [deal_rating |-> "MARGINAL",
          recommendation |-> "Risky - only proceed if you can negotiate significantly"]
    ELSE [deal_rating |-> "POOR",
          recommendation |-> "Pass - property is overpriced for investment"]

\* lines 129-133: the repair estimate in use, or the exception raised
RepairEstimateFor(property_info, repair_costs) ==
    IF repair_costs.t = "None"
    THEN LET e == estimate_repair_costs(property_info)
         IN  IF IsError(e) THEN e
             ELSE [estimated_total |-> e.estimated_total,
                   repair_level |-> e.repair_level]
    ELSE [estimated_total |-> Amount(repair_costs),
          repair_level |-> "user_provided"]

\* faulty variant: "if not arv", so an arv of 0 also takes the fallback
ArvFor_falsy(current_price, arv) ==
    IF ~Truthy(arv) THEN Times(current_price, FallbackArvPercent) ELSE Amount(arv)

\* lines 136-137
ArvFor(current_price, arv) ==
    IF arv.t = "None" THEN Times(current_price, FallbackArvPercent) ELSE Amount(arv)

\* the local variables of analyze_deal when line 161 is reached
analyze_deal_locals(property_info, arv_arg, repair_costs_arg) ==
    LET price == DictGet(property_info, "price", PyInt(0))
        current_price == Amount(price)
        repair_estimate == RepairEstimateFor(property_info, repair_costs_arg)
    IN  IF IsError(repair_estimate) THEN repair_estimate
        \* lines 137, 143: arithmetic on a price that is not a number
        ELSE IF ~IsNumber(price) THEN Raise("TypeError")
        ELSE
        LET repair_costs == repair_estimate.estimated_total
            arv == ArvFor(current_price, arv_arg)
            mao_calc == calculate_max_allowable_offer(arv, repair_costs,
                                                      DEFAULT_PROFIT_MARGIN_TARGET)
            total_cost == TotalCost(current_price, repair_costs,
                                    mao_calc.estimated_holding_costs)
            potential_profit == PotentialProfit(arv, total_cost)
            roi == Roi(potential_profit, total_cost)
            rated == Rating(current_price, mao_calc.recommended_mao)
        IN  IF IsError(roi) THEN roi
            ELSE [current_price |-> current_price,
                  repair_estimate |-> repair_estimate,
                  repair_costs |-> repair_costs,
                  arv |-> arv,
                  mao_calc |-> mao_calc,
                  total_cost |-> total_cost,
                  potential_profit |-> potential_profit,
                  roi |-> roi,
                  deal_rating |-> rated.deal_rating,
                  recommendation |-> rated.recommendation]

\* lines 161-182: the record returned for the locals l
DealRecord(property_info, l) ==
    IF IsError(l) THEN l
    ELSE [property_address |-> DictGet(property_info, "address", NA),
          current_list_price |-> l.current_price,
          arv |-> Round2(l.arv),
          estimated_repairs |-> Round2(l.repair_costs),
          repair_level |-> l.repair_estimate.repair_level,
          max_allowable_offer |-> l.mao_calc.recommended_mao,
          total_investment |-> Round2(l.total_cost),
          potential_profit |-> Round2(l.potential_profit),
          roi_percentage |-> RoundPercent(l.roi),
          deal_rating |-> l.deal_rating,
          recommendation |-> l.recommendation,
          detailed_breakdown |->
              [purchase_price |-> l.current_price,
               repair_costs |-> Round2(l.repair_costs),
               holding_costs |-> l.mao_calc.estimated_holding_costs,
               selling_costs |-> Round2(Times(l.arv, SellingCostPercent)),
               total_costs |-> Round2(l.total_cost),
               arv |-> Round2(l.arv),
               net_profit |-> Round2(l.potential_profit)]]

analyze_deal(property_info, arv_arg, repair_costs_arg) ==
    DealRecord(property_info,
               analyze_deal_locals(property_info, arv_arg, repair_costs_arg))

\* ------------------------------------------------------------------------
\* extract_property_info (realtor_api.py 131-159)
\* ------------------------------------------------------------------------
\* the fields the deal calculator reads; a raw record is a dict with an
\* optional list_price, description and location
extract_property_info(property_data) ==
    LET description == DictGet(property_data, "description", <<>>)
        location == DictGet(property_data, "location", <<>>)
    IN  [address |-> DictGet(DictGet(location, "address", <<>>), "line", NA),
         price |-> DictGet(property_data, "list_price", PyInt(0)),
         sqft |-> DictGet(description, "sqft", PyInt(0)),
         year_built |-> DictGet(description, "year_built", NA)]

\* ------------------------------------------------------------------------
\* Inputs
\* ------------------------------------------------------------------------
MaxPrice == 24
MaxSqft == 2
MaxYear == 2030
MaxComps == 3

\* marks a key that is absent from a dict
Missing == [t |-> "missing"]

\* the dict holding the fields that are not Missing
MkDict(fields) ==
    [k \in {f \in DOMAIN fields : fields[f] # Missing} |-> fields[k]]

\* list prices, in whole dollars as the listing service reports them
PriceValues == {PyInt(p) : p \in {0 - 5, 0} \cup (19..MaxPrice)}

\* list prices of a few cents, as a caller of analyze_deal may pass them
CentPrices == {PyFloat(c * Cent) : c \in {1, 3}}

SqftValues == {PyInt(n) : n \in 0..MaxSqft}

YearStrings ==
    {NA, PyStr(<<"u", "n", "k", "n", "o", "w", "n">>), PyStr(<<>>),
     PyStr(<<"1", "9", "9", "0">>), PyStr(<<"2", "0", "2", "0">>),
     PyStr(<<"-", "5">>), PyStr(<<"sup2">>), PyStr(<<"2", "0", "1", "sup2">>)}

YearInts == {PyInt(y) : y \in {0 - 5, 0} \cup (1990..MaxYear)}

YearValues == YearInts \cup YearStrings \cup {PyNone, PyFloat(Dollars(1990))}

Address == PyStr(<<"1", " ", "M", "a", "i", "n">>)

\* amounts with a sub-cent part, as a mean of comparables or a caller's
\* number carries
SubCents == {0, 4 * Mill, 6 * Mill}

ArvAmounts == {Dollars(d) + m : d \in {0 - 10, 0, 30}, m \in SubCents}

RepairAmounts == {Dollars(d) + m : d \in {0, 1, 25}, m \in SubCents}

ArvArgs == {PyNone, PyInt(0)} \cup {PyFloat(a) : a \in ArvAmounts}

RepairArgs == {PyNone, PyInt(0)} \cup {PyFloat(r) : r \in RepairAmounts}

\* the default target profit, the fraction 0.28 at which the two methods
\* meet, and one above it
TargetPercents == {DEFAULT_PROFIT_MARGIN_TARGET, 28, 30}

\* property records handed to estimate_repair_costs
RepairProperties ==
    {MkDict([sqft |-> s, year_built |-> y]) :
        s \in SqftValues \cup {Missing, PyNone}, y \in YearValues \cup {Missing}}

\* property records handed to analyze_deal
DealProperties ==
    {MkDict([price |-> p, sqft |-> s, year_built |-> y, address |-> a]) :
        p \in PriceValues \cup CentPrices \cup {Missing},
        s \in SqftValues \cup {Missing},
        y \in {Missing, NA, PyInt(1990)},
        a \in {Missing, Address}}

\* raw listing records handed to extract_property_info
RawDescriptions ==
    {MkDict([sqft |-> s, year_built |-> y]) :
        s \in SqftValues \cup {Missing},
        y \in {Missing, PyNone, PyInt(1990), PyInt(2020), PyStr(<<"sup2">>)}}

RawProperties ==
    {MkDict([list_price |-> p, description |-> d, location |-> l]) :
        p \in PriceValues \cup {Missing},
        d \in RawDescriptions \cup {Missing},
        l \in {Missing, <<>>, [address |-> [line |-> Address]]}}

Comparables == {MkDict([list_price |-> p]) :
                   p \in {Missing, PyNone, PyInt(0), PyInt(10), PyInt(21), PyInt(0 - 3)}}

RECURSIVE SeqsUpTo(_, _)
SeqsUpTo(S, n) ==
    IF n = 0 THEN {<<>>}
    ELSE LET shorter == SeqsUpTo(S, n - 1)
         IN  shorter \cup {Append(q, x) : q \in {r \in shorter : Len(r) = n - 1}, x \in S}

ComparableLists == SeqsUpTo(Comparables, MaxComps)

\* ------------------------------------------------------------------------
\* State: the call in progress ("none" between calls), its arguments, what
\* it returned (or the exception it raised), and the locals of analyze_deal
\* at its return.  Nothing survives a call: the functions keep no state.
\* requests holds the callers that run side by side (see Requests below):
\* for each, the argument objects it owns and the results it was handed.
\* ------------------------------------------------------------------------
VARIABLES function_name, arguments, result, locals, requests

vars == <<function_name, arguments, result, locals, requests>>

NumRequests == 2

IdleRequest ==
    [pc |-> "idle", function_name |-> "none", given |-> <<>>,
     arguments |-> <<>>, results |-> <<>>]

Init ==
    /\ function_name = "none"
    /\ arguments = <<>>
    /\ result = <<>>
    /\ locals = <<>>
    /\ requests = [r \in 1..NumRequests |-> IdleRequest]

Call_calculate_arv_from_comps ==
    /\ function_name = "none"
    /\ \E comparable_properties \in ComparableLists :
        /\ function_name' = "calculate_arv_from_comps"
        /\ arguments' = [comparable_properties |-> comparable_properties]
        /\ result' = calculate_arv_from_comps(comparable_properties)
        /\ locals' = <<>>
        /\ UNCHANGED requests

Call_estimate_repair_costs ==
    /\ function_name = "none"
    /\ \E property_info \in RepairProperties :
        /\ function_name' = "estimate_repair_costs"
        /\ arguments' = [property_info |-> property_info]
        /\ result' = estimate_repair_costs(property_info)
        /\ locals' = <<>>
        /\ UNCHANGED requests

Call_calculate_max_allowable_offer ==
    /\ function_name = "none"
    /\ \E arv \in ArvAmounts, repair_costs \in RepairAmounts, tpp \in TargetPercents :
        /\ function_name' = "calculate_max_allowable_offer"
        /\ arguments' = [arv |-> arv, repair_costs |-> repair_costs,
                         target_profit_percent |-> tpp]
        /\ result' = calculate_max_allowable_offer(arv, repair_costs, tpp)
        /\ locals' = <<>>
        /\ UNCHANGED requests

Call_analyze_deal ==
    /\ function_name = "none"
    /\ \E property_info \in DealProperties, arv \in ArvArgs, repair_costs \in RepairArgs :
        /\ function_name' = "analyze_deal"
        /\ arguments' = [property_info |-> property_info, arv |-> arv,
                         repair_costs |-> repair_costs]
        /\ \E l \in {analyze_deal_locals(property_info, arv, repair_costs)} :
              /\ locals' = l
              /\ result' = DealRecord(property_info, l)
        /\ UNCHANGED requests

\* app.py 134-137: one iteration of the loop over the fetched listings
AnalyzeProperty ==
    /\ function_name = "none"
    /\ \E raw_property \in RawProperties :
        \E property_info \in {extract_property_info(raw_property)} :
        \E repair_estimate \in {estimate_repair_costs(property_info)} :
            /\ function_name' = "analyze_property"
            /\ arguments' = [raw_property |-> raw_property]
            /\ UNCHANGED requests
            /\ IF IsError(repair_estimate)
               THEN /\ result' = repair_estimate
                    /\ locals' = <<>>
               ELSE \E l \in {analyze_deal_locals(property_info, PyNone,
                                    PyFloat(repair_estimate.estimated_total))} :
                        /\ locals' = l
                        /\ result' = [property_data |-> property_info,
                                      repair_estimate |-> repair_estimate,
                                      deal_analysis |-> DealRecord(property_info, l)]

\* the caller takes the result; the next call starts afresh
Return ==
    /\ function_name # "none"
    /\ function_name' = "none"
    /\ arguments' = <<>>
    /\ result' = <<>>
    /\ locals' = <<>>
    /\ UNCHANGED requests

Next ==
    \/ Call_calculate_arv_from_comps
    \/ Call_estimate_repair_costs
    \/ Call_calculate_max_allowable_offer
    \/ Call_analyze_deal
    \/ AnalyzeProperty
    \/ Return

Spec == Init /\ [][Next]_vars

\* ------------------------------------------------------------------------
\* Properties
\* ------------------------------------------------------------------------
\* the analysis record in hand, when a call produced one
HasDeal ==
    /\ function_name \in {"analyze_deal", "analyze_property"}
    /\ ~IsError(result)

Deal == IF function_name = "analyze_deal" THEN result ELSE result.deal_analysis

\* C1 (amounts are whole mills, so a \div 100 is exact): for arv >= 0,
\* repair_costs >= 0 and the default target profit fraction 0.20,
\* recommended_mao is min(arv*0.70 - repair_costs,
\* arv - repair_costs - arv*0.20 - arv*0.02) rounded to 2 decimals, and the
\* returned record has recommended_mao = min(traditional_mao, profit_based_mao).
C1_RecommendedMaoIsMin ==
    (/\ function_name = "calculate_max_allowable_offer"
     /\ arguments.arv >= 0
     /\ arguments.repair_costs >= 0
     /\ arguments.target_profit_percent = 20)
    => LET a == arguments.arv
           r == arguments.repair_costs
           rule == (a \div 100) * 70 - r
           profit == a - r - (a \div 100) * 20 - (a \div 100) * 2
       IN  /\ result.recommended_mao = Round2(IF rule <= profit THEN rule ELSE profit)
           /\ result.recommended_mao =
                  (IF result.traditional_mao <= result.profit_based_mao
                   THEN result.traditional_mao ELSE result.profit_based_mao)

\* the offer for arv = 30.006, repairs = 1.006: the two methods differ
\* (19.9982 against 22.39868) and the lower one rounds to 20.00
C1_Witness ==
    /\ function_name = "calculate_max_allowable_offer"
    /\ arguments.arv = 3000600
    /\ arguments.repair_costs = 100600
    /\ arguments.target_profit_percent = 20
    /\ result.traditional_mao = 2000000
    /\ result.profit_based_mao = 2240000
    /\ result.recommended_mao = 2000000

\* C2 (prices and offers are whole cents, compared here in cents):
\* the rating is decided by testing, in this order, list_price <= M
\* (EXCELLENT), list_price <= M*1.05 (GOOD), list_price <= M*1.15 (MARGINAL),
\* else POOR, M being the recommended MAO of the record; and each rating
\* carries its own fixed recommendation string.
C2_RatingThresholds ==
    HasDeal =>
        LET p == Deal.current_list_price \div Cent
            M == Deal.max_allowable_offer \div Cent
            expected == IF p <= M THEN "EXCELLENT"
                        ELSE IF 100 * p <= 105 * M THEN "GOOD"
                        ELSE IF 100 * p <= 115 * M THEN "MARGINAL"
                        ELSE "POOR"
        IN  /\ Deal.deal_rating = expected
            /\ Deal.recommendation =
                   (CASE expected = "EXCELLENT" -> "Strong buy - property is below MAO"
                      [] expected = "GOOD" -> "Negotiate - close to MAO, try to lower price"
                      [] expected = "MARGINAL" ->
                            "Risky - only proceed if you can negotiate significantly"
                      [] expected = "POOR" -> "Pass - property is overpriced for investment")

\* a listing priced exactly at M * 1.05 (21.00 against M = 20.00) is GOOD
C2_Witness ==
    /\ HasDeal
    /\ Deal.max_allowable_offer = 2000000
    /\ Deal.current_list_price = 2100000
    /\ Deal.deal_rating = "GOOD"

\* C3 as stated: on the output fields of every analysis record,
\* total_investment = purchase_price + repair_costs + holding_costs and
\* potential_profit = arv - total_investment.
C3_OutputIdentities ==
    HasDeal =>
        LET b == Deal.detailed_breakdown
        IN  /\ Deal.total_investment = b.purchase_price + b.repair_costs + b.holding_costs
            /\ Deal.potential_profit = Deal.arv - Deal.total_investment

\* C3 amended: each figure is rounded on its own, so the two identities hold
\* on the output fields to within one cent, and exactly when arv and repair
\* costs are whole-cent amounts (the list price being whole cents).
C3_IdentitiesWithinOneCent ==
    HasDeal =>
        LET b == Deal.detailed_breakdown
            sum == b.purchase_price + b.repair_costs + b.holding_costs
            diff == Deal.arv - Deal.total_investment
        IN  /\ Abs(Deal.total_investment - sum) <= Cent
            /\ Abs(Deal.potential_profit - diff) <= Cent
            /\ (locals.arv % Cent = 0 /\ locals.repair_costs % Cent = 0)
                   => (Deal.total_investment = sum /\ Deal.potential_profit = diff)

\* price 20, arv 30.006, repairs 1.004: reported arv 30.01, investment
\* 21.60, profit 8.40 = round(8.402), one cent short of 30.01 - 21.60
C3_Witness ==
    /\ HasDeal
    /\ locals.arv % Cent # 0
    /\ locals.repair_costs % Cent # 0
    /\ Deal.potential_profit = Deal.arv - Deal.total_investment - Cent

\* C4 as stated: for every integer year_built and non-negative area the
\* tier is chosen by age = 2025 - year_built (light 12.50 below 10, medium
\* 30.00 below 30, heavy 62.50 from 30), estimated_total is area times that
\* rate rounded to 2 decimals, and cost_per_sqft and repair_level name it.
C4_TierByAge ==
    (/\ function_name = "estimate_repair_costs"
     /\ "year_built" \in DOMAIN arguments.property_info
     /\ "sqft" \in DOMAIN arguments.property_info
     /\ arguments.property_info.year_built.t = "int"
     /\ arguments.property_info.sqft.t = "int"
     /\ arguments.property_info.sqft.v >= 0)
    => LET age == 2025 - arguments.property_info.year_built.v
           area == arguments.property_info.sqft.v
           rate == IF age < 10 THEN 1250000 ELSE IF age < 30 THEN 3000000 ELSE 6250000
           level == IF age < 10 THEN "light" ELSE IF age < 30 THEN "medium" ELSE "heavy"
       IN  /\ ~IsError(result)
           /\ result.estimated_total = Round2(area * rate)
           /\ result.cost_per_sqft = rate
           /\ result.repair_level = level

\* C5: the result is the mean of exactly the list prices that are present
\* and non-zero (to the nearest representable amount), and 0 when there is
\* none.
CountedComps(comps) ==
    {i \in 1..Len(comps) :
        /\ "list_price" \in DOMAIN comps[i]
        /\ comps[i].list_price.t = "int"
        /\ comps[i].list_price.v # 0}

RECURSIVE SumListPrices(_, _)
SumListPrices(comps, I) ==
    IF I = {} THEN 0
    ELSE LET i == CHOOSE j \in I : TRUE
         IN  comps[i].list_price.v * Scale + SumListPrices(comps, I \ {i})

C5_MeanOfNonZeroPrices ==
    function_name = "calculate_arv_from_comps" =>
        LET comps == arguments.comparable_properties
            I == CountedComps(comps)
            n == Cardinality(I)
        IN  IF n = 0 THEN result = PyInt(0)
            ELSE /\ result.t = "float"
                 /\ 2 * Abs(result.v * n - SumListPrices(comps, I)) <= n

\* three comparables, one of them priced 0: the mean is taken over the
\* other two, (10 + 21) / 2 = 15.50
C5_Witness ==
    /\ function_name = "calculate_arv_from_comps"
    /\ Len(arguments.comparable_properties) = 3
    /\ \E i \in 1..3 : arguments.comparable_properties[i] = [list_price |-> PyInt(0)]
    /\ Cardinality(CountedComps(arguments.comparable_properties)) = 2
    /\ result = PyFloat(1550000)

\* C6 (amounts are whole mills, so price \div 100 is exact): the fallback
\* arv = list_price * 1.15 is used exactly when arv is omitted and the
\* estimator's total exactly when repair_costs is omitted; a supplied value,
\* 0 included, is used as given.
C6_FallbacksOnlyWhenOmitted ==
    (function_name = "analyze_deal" /\ ~IsError(result)) =>
        LET info == arguments.property_info
            price == IF "price" \in DOMAIN info THEN Amount(info.price) ELSE 0
            arv == IF arguments.arv = PyNone THEN (price \div 100) * 115
                   ELSE IF arguments.arv.t = "int" THEN arguments.arv.v * Scale
                   ELSE arguments.arv.v
            repairs == IF arguments.repair_costs = PyNone
                       THEN estimate_repair_costs(info).estimated_total
                       ELSE IF arguments.repair_costs.t = "int"
                       THEN arguments.repair_costs.v * Scale
                       ELSE arguments.repair_costs.v
        IN  /\ locals.arv = arv
            /\ result.arv = Round2(arv)
            /\ locals.repair_costs = repairs
            /\ result.estimated_repairs = Round2(repairs)
            /\ (result.repair_level = "user_provided") <=> (arguments.repair_costs # PyNone)

\* a 20-dollar listing of 1 sq ft analysed with arv = 0 and repair_costs = 0
\* supplied: both zeros are kept (the fallbacks would give 23.00 and 12.50)
C6_Witness ==
    /\ function_name = "analyze_deal"
    /\ arguments.arv = PyInt(0)
    /\ arguments.repair_costs = PyInt(0)
    /\ "price" \in DOMAIN arguments.property_info
    /\ arguments.property_info.price = PyInt(20)
    /\ "sqft" \in DOMAIN arguments.property_info
    /\ arguments.property_info.sqft = PyInt(1)
    /\ result.arv = 0
    /\ result.estimated_repairs = 0

\* C7: with arv and repair_costs supplied and fixed, a higher list price
\* never gets a better rating (EXCELLENT > GOOD > MARGINAL > POOR), whatever
\* the sign of the recommended MAO.
Rank(deal_rating) ==
    CASE deal_rating = "EXCELLENT" -> 3
      [] deal_rating = "GOOD" -> 2
      [] deal_rating = "MARGINAL" -> 1
      [] deal_rating = "POOR" -> 0

RatingAt(price) ==
    analyze_deal([arguments.property_info EXCEPT !.price = price],
                 arguments.arv, arguments.repair_costs).deal_rating

SuppliedDeal ==
    /\ function_name = "analyze_deal"
    /\ ~IsError(result)
    /\ arguments.arv # PyNone
    /\ arguments.repair_costs # PyNone
    /\ "price" \in DOMAIN arguments.property_info

C7_RatingMonotonicInPrice ==
    SuppliedDeal =>
        \A lower \in PriceValues \cup CentPrices :
            Amount(lower) <= Amount(arguments.property_info.price)
                => Rank(RatingAt(lower)) >= Rank(result.deal_rating)

\* arv 30, repairs 1 (M = 20.00): the listing at 24 is POOR while the same
\* property at 20, 21 and 23 is EXCELLENT, GOOD and MARGINAL
C7_Witness ==
    /\ SuppliedDeal
    /\ result.max_allowable_offer = 2000000
    /\ arguments.property_info.price = PyInt(24)
    /\ result.deal_rating = "POOR"
    /\ RatingAt(PyInt(20)) = "EXCELLENT"
    /\ RatingAt(PyInt(21)) = "GOOD"
    /\ RatingAt(PyInt(23)) = "MARGINAL"

\* the same with a negative MAO: arv 30, repairs 25 (M = -4.00)
C7_NegativeMaoReached ==
    /\ SuppliedDeal
    /\ result.max_allowable_offer = 0 - 400000
    /\ arguments.property_info.price = PyInt(0)
    /\ result.deal_rating = "POOR"
    /\ RatingAt(PyInt(0 - 5)) = "EXCELLENT"

\* C8 as stated: for non-negative list price, area, arv and repair cost,
\* every monetary field of the record is non-negative (potential_profit,
\* net_profit and roi_percentage apart).
NonNegativeInputs ==
    /\ HasDeal
    /\ locals.current_price >= 0
    /\ locals.arv >= 0
    /\ locals.repair_costs >= 0

OtherMonetaryFieldsNonNegative ==
    LET b == Deal.detailed_breakdown
    IN  /\ Deal.current_list_price >= 0
        /\ Deal.arv >= 0
        /\ Deal.estimated_repairs >= 0
        /\ Deal.total_investment >= 0
        /\ b.purchase_price >= 0
        /\ b.repair_costs >= 0
        /\ b.holding_costs >= 0
        /\ b.selling_costs >= 0
        /\ b.total_costs >= 0

C8_AllMonetaryNonNegative ==
    NonNegativeInputs =>
        (OtherMonetaryFieldsNonNegative /\ Deal.max_allowable_offer >= 0)

\* C8 amended: max_allowable_offer is not among the non-negative fields (it
\* is negative as soon as the repair costs exceed 70% of arv by half a cent);
\* the other monetary fields are non-negative.
C8_NonNegativeExceptOffer ==
    NonNegativeInputs =>
        /\ OtherMonetaryFieldsNonNegative
        /\ (Deal.max_allowable_offer < 0)
               <=> (2 * (locals.repair_costs - (locals.arv \div 100) * 70) > Cent)

\* arv 30, repairs 25 on a listing at 20: the offer is -4.00, the rest is
\* non-negative
C8_Witness ==
    /\ NonNegativeInputs
    /\ locals.current_price = 2000000
    /\ Deal.max_allowable_offer = 0 - 400000
    /\ Deal.total_investment > 0
    /\ OtherMonetaryFieldsNonNegative

\* C9: roi is potential_profit / total_investment * 100 when
\* total_investment > 0 and exactly 0 otherwise; no input divides by zero;
\* and for total_investment > 0 the sign of roi is that of potential_profit.
C9_RoiGuarded ==
    function_name \in {"analyze_deal", "analyze_property"} =>
        /\ result # Raise("ZeroDivisionError")
        /\ HasDeal =>
              IF locals.total_cost > 0
              THEN /\ locals.roi = [n |-> locals.potential_profit, d |-> locals.total_cost]
                   /\ Sign(locals.roi.n) * Sign(locals.roi.d) = Sign(locals.potential_profit)
              ELSE /\ locals.roi.n = 0
                   /\ Deal.roi_percentage = 0

\* price 0, repairs 0, arv 0.004: the investment is 0 (the holding costs
\* round to 0) and the profit is not, and roi is 0
C9_Witness ==
    /\ HasDeal
    /\ locals.total_cost = 0
    /\ locals.potential_profit > 0
    /\ locals.roi.n = 0
    /\ Deal.roi_percentage = 0

\* a negative investment is reached too (price -5, repairs 0, arv 0)
C9_NegativeInvestmentReached ==
    /\ HasDeal
    /\ locals.total_cost < 0
    /\ locals.potential_profit > 0
    /\ Deal.roi_percentage = 0

\* C10 as stated: a year_built that is missing from the record, or that is
\* not a number, is treated as the reference year (the age used is 0), the
\* result is tier light at 12.50, and no such input raises an error.
\* A string is a number when int() accepts it: an optional sign and one or
\* more decimal digits.
IsNumeral(s) ==
    LET digits == IF Len(s) > 0 /\ s[1] = "-" THEN Tail(s) ELSE s
    IN  /\ Len(digits) > 0
        /\ \A i \in 1..Len(digits) :
               digits[i] \in {"0", "1", "2", "3", "4", "5", "6", "7", "8", "9"}

YearMissingOrNonNumeric(property_info) ==
    \/ "year_built" \notin DOMAIN property_info
    \/ property_info.year_built.t = "None"
    \/ /\ property_info.year_built.t = "str"
       /\ ~IsNumeral(property_info.year_built.s)

C10_MissingYearIsAgeZero ==
    (/\ function_name = "estimate_repair_costs"
     /\ YearMissingOrNonNumeric(arguments.property_info)
     /\ "sqft" \in DOMAIN arguments.property_info
     /\ arguments.property_info.sqft.t = "int")
    => /\ ~IsError(result)
       /\ AgeOf(DictGet(arguments.property_info, "year_built",
                        PyInt(default_year_built))) = PyInt(0)
       /\ result.repair_level = "light"
       /\ result.cost_per_sqft = 1250000

\* C11 as stated: with respect to the floor area estimate_repair_costs has
\* no error path: when the area is absent from the record, or is 0, the call
\* returns normally with estimated_total = 0 and the light, medium and heavy
\* totals of the breakdown all 0.
AreaAbsentOrZero(property_info) ==
    \/ "sqft" \notin DOMAIN property_info
    \/ property_info.sqft = PyInt(0)

C11_NoErrorOnArea ==
    function_name = "estimate_repair_costs" =>
        \* no call fails on the area (line 68 is the only use of it)
        /\ result # Raise("TypeError")
        /\ AreaAbsentOrZero(arguments.property_info)
               => /\ ~IsError(result)
                  /\ result.estimated_total = 0
                  /\ result.breakdown = [light |-> 0, medium |-> 0, heavy |-> 0]

\* the calls that the area does decide: a record without area and with a
\* year the code can read returns the zero estimate, an area of None raises
C11_ZeroEstimateReached ==
    /\ function_name = "estimate_repair_costs"
    /\ "sqft" \notin DOMAIN arguments.property_info
    /\ ~IsError(result)
    /\ result.estimated_total = 0
    /\ result.breakdown = [light |-> 0, medium |-> 0, heavy |-> 0]

C11_NoneAreaRaises ==
    /\ function_name = "estimate_repair_costs"
    /\ "sqft" \in DOMAIN arguments.property_info
    /\ arguments.property_info.sqft = PyNone
    /\ result = Raise("TypeError")

\* ------------------------------------------------------------------------
\* format_deal_analysis_report (deal_calculator.py 185-238)
\* ------------------------------------------------------------------------
Pad2(n) == <<DecimalDigits[(n \div 10) + 1], DecimalDigits[(n % 10) + 1]>>

Pad3(n) == <<DecimalDigits[(n \div 100) + 1]>> \o Pad2(n % 100)

\* the "," option: the integer part in groups of three digits
RECURSIVE Grouped(_)
Grouped(n) ==
    IF n < 1000 THEN NatToStr(n)
    ELSE Grouped(n \div 1000) \o <<",">> \o Pad3(n % 1000)

\* format(x, ",.2f") or format(x, ".2f") of the number hundredths / 100
\* (a negative zero, which prints as -0.00, is not represented)
FormatFixed2(hundredths, grouping) ==
    LET a == Abs(hundredths)
    IN  (IF hundredths < 0 THEN <<"-">> ELSE <<>>)
        \o (IF grouping THEN Grouped(a \div 100) ELSE NatToStr(a \div 100))
        \o <<".">> \o Pad2(a % 100)

\* {x:,.2f} of an amount
FormatMoney(x) == FormatFixed2(Round2(x) \div Cent, TRUE)

ReportKeys ==
    {"property_address", "current_list_price", "arv", "repair_level",
     "estimated_repairs", "max_allowable_offer", "total_investment",
     "potential_profit", "roi_percentage", "deal_rating", "recommendation",
     "detailed_breakdown"}

\* the report, as the texts interpolated into the fixed template in the
\* order of the template; KeyError when the dict lacks a field
format_deal_analysis_report(analysis) ==
    IF ~(ReportKeys \subseteq DOMAIN analysis) THEN Raise("KeyError")
    ELSE LET b == analysis.detailed_breakdown
         IN  [property_address |-> Str(analysis.property_address),
              current_list_price |-> FormatMoney(analysis.current_list_price),
              arv |-> FormatMoney(analysis.arv),
              repair_level |-> analysis.repair_level,
              estimated_repairs |-> FormatMoney(analysis.estimated_repairs),
              max_allowable_offer |-> FormatMoney(analysis.max_allowable_offer),
              total_investment |-> FormatMoney(analysis.total_investment),
              potential_profit |-> FormatMoney(analysis.potential_profit),
              roi_percentage |-> FormatFixed2(analysis.roi_percentage, FALSE),
              deal_rating |-> analysis.deal_rating,
              recommendation |-> analysis.recommendation,
              cost_breakdown |->
                  <<FormatMoney(b.purchase_price), FormatMoney(b.repair_costs),
                    FormatMoney(b.holding_costs), FormatMoney(b.selling_costs),
                    FormatMoney(b.total_costs), FormatMoney(b.arv),
                    FormatMoney(b.net_profit)>>]

\* ------------------------------------------------------------------------
\* Requests: callers that run side by side (the web application serves each
\* request on its own thread, agent.py dispatches the tool calls of a run).
\* Each owns the argument objects it passes; a call reads its arguments,
\* the literals of its body and the constants of config.py, which no
\* statement of the program assigns.  A request calls a function, may call
\* it again with the very same objects, and then drops them.
\* ------------------------------------------------------------------------
MaxRepeats == 2

\* what the call returns (or raises) for the argument objects as they are
Apply(fn, args) ==
    CASE fn = "calculate_arv_from_comps" ->
            calculate_arv_from_comps(args.comparable_properties)
      [] fn = "estimate_repair_costs" ->
            estimate_repair_costs(args.property_info)
      [] fn = "calculate_max_allowable_offer" ->
            calculate_max_allowable_offer(args.arv, args.repair_costs,
                                          args.target_profit_percent)
      [] fn = "analyze_deal" ->
            analyze_deal(args.property_info, args.arv, args.repair_costs)
      [] fn = "format_deal_analysis_report" ->
            format_deal_analysis_report(args.analysis)

\* faulty variant: the defaults are stored into the record (setdefault)
RecordAfter_setdefault(property_info) ==
    [k \in DOMAIN property_info \cup {"sqft", "year_built"} |->
        IF k \in DOMAIN property_info THEN property_info[k]
        ELSE IF k = "sqft" THEN PyInt(0) ELSE PyInt(default_year_built)]

\* the property record after a call that was given it: the functions only
\* call .get on it (lines 50, 51, 126, 162) and store nothing
RecordAfter(property_info) ==
    property_info

\* the argument objects after the call
ArgumentsAfter(fn, args) ==
    IF fn \in {"estimate_repair_costs", "analyze_deal"}
    THEN [args EXCEPT !.property_info = RecordAfter(@)]
    ELSE args

RequestRecords ==
    {<<>>,
     [sqft |-> PyInt(1), year_built |-> PyInt(1990)],
     [price |-> PyInt(24), sqft |-> PyInt(2), address |-> Address],
     [price |-> PyInt(20), year_built |-> PyStr(<<"sup2">>)]}

RequestCalls ==
    {[function_name |-> "calculate_arv_from_comps",
      arguments |-> [comparable_properties |-> c]] :
         c \in {<<>>, <<[list_price |-> PyInt(10)], [list_price |-> PyInt(0)],
                        [list_price |-> PyInt(21)]>>}}
    \cup {[function_name |-> "estimate_repair_costs",
           arguments |-> [property_info |-> p]] : p \in RequestRecords}
    \cup {[function_name |-> "calculate_max_allowable_offer",
           arguments |-> [arv |-> Dollars(30) + 6 * Mill,
                          repair_costs |-> Dollars(1) + 4 * Mill,
                          target_profit_percent |-> t]] : t \in TargetPercents}
    \cup {[function_name |-> "analyze_deal",
           arguments |-> [property_info |-> p, arv |-> a, repair_costs |-> PyNone]] :
              p \in RequestRecords, a \in {PyNone}}
    \cup {[function_name |-> "analyze_deal",
           arguments |-> [property_info |-> [price |-> PyInt(20)],
                          arv |-> PyFloat(Dollars(30) + 6 * Mill),
                          repair_costs |-> PyFloat(Dollars(1) + 4 * Mill)]]}
    \cup {[function_name |-> "format_deal_analysis_report",
           arguments |-> [analysis |-> d]] :
              d \in {analyze_deal(p, PyNone, PyNone) :
                        p \in {r \in RequestRecords : "price" \in DOMAIN r}}}

\* the request gets its argument objects and enters the call
Begin(r) ==
    /\ requests[r].pc = "idle"
    /\ \E call \in RequestCalls :
          requests' = [requests EXCEPT ![r] =
                          [pc |-> "calling",
                           function_name |-> call.function_name,
                           given |-> call.arguments,
                           arguments |-> call.arguments,
                           results |-> <<>>]]
    /\ UNCHANGED <<function_name, arguments, result, locals>>

\* the body runs to its return (or to the exception)
Execute(r) ==
    /\ requests[r].pc = "calling"
    /\ requests' = [requests EXCEPT ![r] =
                       [@ EXCEPT !.pc = "returned",
                                 !.results = Append(@, Apply(requests[r].function_name,
                                                             requests[r].arguments)),
                                 !.arguments = ArgumentsAfter(requests[r].function_name,
                                                              requests[r].arguments)]]
    /\ UNCHANGED <<function_name, arguments, result, locals>>

\* the same call again, on the same objects
Again(r) ==
    /\ requests[r].pc = "returned"
    /\ Len(requests[r].results) < MaxRepeats
    /\ requests' = [requests EXCEPT ![r].pc = "calling"]
    /\ UNCHANGED <<function_name, arguments, result, locals>>

\* the request ends and its objects are dropped
Finish(r) ==
    /\ requests[r].pc = "returned"
    /\ requests' = [requests EXCEPT ![r] = IdleRequest]
    /\ UNCHANGED <<function_name, arguments, result, locals>>

NextRequests ==
    \E r \in 1..NumRequests :
        \/ Begin(r)
        \/ Execute(r)
        \/ Again(r)
        \/ Finish(r)

SpecRequests == Init /\ [][NextRequests]_vars

\* C12: every core function is a deterministic function of its arguments
\* with no hidden or shared mutable state: calls with identical inputs
\* return identical outputs, whatever calls of the same or of other requests
\* are interleaved between or around them, and no call modifies the property
\* record (or any other argument object) it is given.
SameCall(r, q) ==
    /\ requests[r].pc # "idle"
    /\ requests[q].pc # "idle"
    /\ requests[r].function_name = requests[q].function_name
    /\ requests[r].given = requests[q].given

C12_ReportReached ==
    \E r \in 1..NumRequests :
        /\ requests[r].function_name = "format_deal_analysis_report"
        /\ Len(requests[r].results) = MaxRepeats
        /\ ~IsError(requests[r].results[1])
        /\ requests[r].results[1].max_allowable_offer = <<"-", "5", ".", "6", "8">>

\* C13 as stated: when analyze_deal runs without an arv, so that
\* arv = list_price * 1.15, every list price > 0 with a repair cost >= 0
\* (derived or supplied) is rated POOR.
FallbackArvUsed ==
    /\ HasDeal
    /\ function_name = "analyze_deal" => arguments.arv = PyNone

C13_FallbackAlwaysPoor ==
    (/\ FallbackArvUsed
     /\ locals.current_price > 0
     /\ locals.repair_costs >= 0)
    => Deal.deal_rating = "POOR"

\* the same for the listings the rounding of the offer cannot lift: from a
\* price of 8 cents on, and so for every whole-dollar price, the rating
\* under the fallback valuation is POOR
C13_PoorFromEightCents ==
    (/\ FallbackArvUsed
     /\ locals.current_price >= 8 * Cent
     /\ locals.repair_costs >= 0)
    => Deal.deal_rating = "POOR"

\* price 0.01, no repairs: arv 0.0115, the offer 0.00805 is rounded to 0.01
\* and the listing is EXCELLENT
C13_CentListingExcellent ==
    /\ FallbackArvUsed
    /\ locals.current_price = Cent
    /\ locals.repair_costs = 0
    /\ Deal.max_allowable_offer = Cent
    /\ Deal.deal_rating = "EXCELLENT"

\* C14 as stated: analyze_deal rounds to 2 decimals only where it produces
\* its output fields: total_investment, potential_profit, roi and the three
\* rating comparisons are computed from the unrounded repair cost, holding
\* cost (arv * 0.02) and recommended MAO.
FullHoldingCosts == (locals.arv \div 100) * 2

FullRecommendedMao ==
    LET rule == (locals.arv \div 100) * 70 - locals.repair_costs
        profit == locals.arv - locals.repair_costs - (locals.arv \div 100) * 20
                  - FullHoldingCosts
    IN  IF rule <= profit THEN rule ELSE profit

FullTotalCost == locals.current_price + locals.repair_costs + FullHoldingCosts

C14_FullPrecisionIntermediates ==
    HasDeal =>
        /\ locals.total_cost = FullTotalCost
        /\ locals.potential_profit = locals.arv - FullTotalCost
        /\ locals.roi = (IF FullTotalCost > 0
                         THEN [n |-> locals.arv - FullTotalCost, d |-> FullTotalCost]
                         ELSE [n |-> 0, d |-> 1])
        /\ Deal.deal_rating =
               (IF locals.current_price <= FullRecommendedMao THEN "EXCELLENT"
                ELSE IF 100 * (locals.current_price \div 100)
                            <= 105 * (FullRecommendedMao \div 100) THEN "GOOD"
                ELSE IF 100 * (locals.current_price \div 100)
                            <= 115 * (FullRecommendedMao \div 100) THEN "MARGINAL"
                ELSE "POOR")

\* where the rounded intermediates show in the output: arv 0.004 on a free
\* listing without repairs has holding costs 0.00008, which round to 0, so
\* the investment is 0 and roi is reported as 0 instead of 4900 %
C14_RoundedHoldingDecidesRoi ==
    /\ HasDeal
    /\ locals.current_price = 0
    /\ locals.repair_costs = 0
    /\ locals.arv = 4 * Mill
    /\ FullTotalCost > 0
    /\ locals.total_cost = 0
    /\ Deal.roi_percentage = 0

\* and the rounded offer decides the rating: price 0.01 under the fallback
\* valuation is above the offer 0.00805 and at the rounded offer 0.01
C14_RoundedMaoDecidesRating ==
    /\ HasDeal
    /\ locals.current_price = Cent
    /\ locals.current_price > FullRecommendedMao
    /\ locals.current_price <= Deal.max_allowable_offer
    /\ Deal.deal_rating = "EXCELLENT"

\* C15 (amounts are whole mills, so arv \div 100 is exact): with the
\* default target profit fraction 0.20 and arv >= 0 the rule-based offer arv*0.70 - repairs is never above the profit-based offer
\* arv*0.78 - repairs, so recommended_mao equals traditional_mao; the
\* profit-based offer is the lower one only for arv < 0 or a target profit
\* fraction above 0.28.
OfferCall == function_name = "calculate_max_allowable_offer"

C15_RuleBasedGoverns ==
    /\ (OfferCall /\ arguments.arv >= 0 /\ arguments.target_profit_percent = 20)
           => /\ result.traditional_mao <= result.profit_based_mao
              /\ result.profit_based_mao
                     = Round2((arguments.arv \div 100) * 78 - arguments.repair_costs)
              /\ result.recommended_mao = result.traditional_mao
    /\ (OfferCall /\ result.profit_based_mao < result.traditional_mao)
           => (arguments.arv < 0 \/ arguments.target_profit_percent > 28)
    /\ (HasDeal /\ locals.arv >= 0)
           => locals.mao_calc.recommended_mao = locals.mao_calc.traditional_mao

\* arv 30.006, repairs 1.004, target 0.20: the offers are 20.00 and 22.40
\* and the recommendation is the rule-based 20.00
C15_Witness ==
    /\ OfferCall
    /\ arguments.arv = Dollars(30) + 6 * Mill
    /\ arguments.repair_costs = Dollars(1) + 4 * Mill
    /\ arguments.target_profit_percent = 20
    /\ result.traditional_mao = 20 * Scale
    /\ result.profit_based_mao = 2240 * Cent
    /\ result.recommended_mao = 20 * Scale

\* the profit-based offer is the lower one for a target of 0.30 ...
C15_HighTargetReached ==
    /\ OfferCall
    /\ arguments.arv > 0
    /\ arguments.target_profit_percent = 30
    /\ result.recommended_mao = result.profit_based_mao
    /\ result.profit_based_mao < result.traditional_mao

\* ... and for a negative arv, and the two meet at a target of 0.28
C15_NegativeArvReached ==
    /\ OfferCall
    /\ arguments.arv < 0
    /\ arguments.target_profit_percent = 20
    /\ result.recommended_mao = result.profit_based_mao
    /\ result.profit_based_mao < result.traditional_mao

C15_EqualAtBoundaryReached ==
    /\ OfferCall
    /\ arguments.arv > 0
    /\ arguments.target_profit_percent = 28
    /\ result.profit_based_mao = result.traditional_mao

\* C16 as stated: the detailed_breakdown repeats the top-level figures
\* (total_costs = total_investment, net_profit = potential_profit, arv = arv,
\* repair_costs = estimated_repairs, purchase_price = current_list_price),
\* selling_costs = arv * 0.08 is reported but enters neither total_costs nor
\* net_profit, and net_profit = arv - purchase_price - repair_costs -
\* holding_costs.
BreakdownRepeatsTopLevel ==
    LET b == Deal.detailed_breakdown
    IN  /\ b.total_costs = Deal.total_investment
        /\ b.net_profit = Deal.potential_profit
        /\ b.arv = Deal.arv
        /\ b.repair_costs = Deal.estimated_repairs
        /\ b.purchase_price = Deal.current_list_price
        /\ b.selling_costs = Round2((locals.arv \div 100) * 8)

MissingOrZero(d, key) == key \notin DOMAIN d \/ d[key] = PyInt(0)

\* the record analyze_deal worked on
AnalysedRecord ==
    IF function_name = "analyze_deal" THEN arguments.property_info
    ELSE result.property_data

EmptyListingAnalysed ==
    /\ FallbackArvUsed
    /\ function_name = "analyze_deal" => arguments.repair_costs = PyNone
    /\ MissingOrZero(AnalysedRecord, "price")
    /\ MissingOrZero(AnalysedRecord, "sqft")

C17_EmptyListingExcellent ==
    /\ EmptyListingAnalysed
           => /\ Deal.deal_rating = "EXCELLENT"
              /\ Deal.recommendation = "Strong buy - property is below MAO"
              /\ Deal.arv = 0
              /\ Deal.estimated_repairs = 0
              /\ Deal.max_allowable_offer = 0
              /\ Deal.total_investment = 0
              /\ Deal.roi_percentage = 0
    /\ (HasDeal /\ Deal.max_allowable_offer < 0)
           => /\ Deal.deal_rating \in {"EXCELLENT", "POOR"}
              /\ (Deal.deal_rating = "EXCELLENT")
                     <=> (Deal.current_list_price <= Deal.max_allowable_offer)

\* a raw listing without price, description and location: the defaults of
\* extract_property_info (price 0, sqft 0, year_built "N/A") are analysed and
\* the result is EXCELLENT, all figures 0
C17_Witness ==
    /\ function_name = "analyze_property"
    /\ DOMAIN arguments.raw_property = {}
    /\ EmptyListingAnalysed
    /\ result.property_data.price = PyInt(0)
    /\ result.property_data.sqft = PyInt(0)
    /\ result.property_data.year_built = NA
    /\ Deal.deal_rating = "EXCELLENT"
    /\ Deal.max_allowable_offer = 0

\* a negative offer with the listing above it (POOR) and below it
\* (EXCELLENT, the price being negative too)
C17_NegativeMaoPoorReached ==
    /\ HasDeal
    /\ Deal.max_allowable_offer < 0
    /\ Deal.current_list_price = 0
    /\ Deal.deal_rating = "POOR"

C17_NegativeMaoExcellentReached ==
    /\ HasDeal
    /\ Deal.max_allowable_offer < 0
    /\ Deal.current_list_price <= Deal.max_allowable_offer
    /\ Deal.deal_rating = "EXCELLENT"

====
